---- MODULE Spec2Model ----
(***************************************************************************)
(* The stdio JSON-RPC time servers of ioehub-mcp-time-server:              *)
(*   "ioehub" : src/ioehub-time.js      (the server the README starts)     *)
(*   "mcp"    : src/mcp-time-server.js  (the earlier, simpler server)      *)
(* One behaviour of the model is one run of one of the two programs.  A    *)
(* step is one turn of the Node.js event loop: a 'line' event, a signal,   *)
(* a stream event or a timer callback, each run to completion.             *)
(***************************************************************************)
EXTENDS Bags, FiniteSets, Integers, Sequences, TLC

\* ------------------------------------------------------------------ bounds
\* Lines delivered on stdin in one run.
MaxLines == 2
\* Environment events in one run (lines, signals, stream events, logging timers).
MaxEvents == 3
\* Readings of the wall clock, in milliseconds: the last millisecond of one
\* second and the first of the next.
Instants == 1999..2000

\* ------------------------------------------------------- JavaScript values
\* A value is a record tagged with its typeof; an object carries the function
\* from its own member names to their values.
Undefined == [t |-> "undefined"]
Null == [t |-> "null"]
Bool(b) == [t |-> "boolean", b |-> b]
Num(n) == [t |-> "number", n |-> n]
\* A string is kept as the sequence of the pieces it was built from, so that a
\* template literal shows what was interpolated into it.
Str(s) == [t |-> "string", parts |-> <<s>>]
Arr == [t |-> "array"]
Obj(f) == [t |-> "object", f |-> f]
EmptyObj == Obj(<<>>)

\* typeof v === 'object' (true of null and of arrays)
IsObjectType(v) == v.t \in {"null", "array", "object"}

\* !v
Falsy(v) ==
    \/ v.t \in {"undefined", "null"}
    \/ v.t = "boolean" /\ ~v.b
    \/ v.t = "number" /\ v.n = 0
    \/ v.t = "string" /\ v.parts = <<"">>

\* v[name] for a value that has properties (anything but null and undefined).
Get(v, name) ==
    IF v.t = "object" /\ name \in DOMAIN v.f THEN v.f[name] ELSE Undefined

\* Reading a property of, or destructuring, null or undefined throws TypeError.
ThrowsOnRead(v) == v.t \in {"undefined", "null"}

\* JSON.stringify followed by the client's JSON.parse: the value a line of
\* output denotes.  Members whose value is undefined are not written.
RECURSIVE Stringify(_)
Stringify(v) ==
    IF v.t = "object"
    THEN LET keep == {k \in DOMAIN v.f : v.f[k] # Undefined}
         IN  Obj([k \in keep |-> Stringify(v.f[k])])
    ELSE v

\* ------------------------------------------------------------ input lines
\* A line of input is blank text, text that is not JSON, or the text of a
\* JSON value.
EmptyLine == [text |-> "empty"]
SpaceLine == [text |-> "spaces"]
GarbageLine == [text |-> "garbage"]
JsonLine(v) == [text |-> "json", v |-> v]

\* !line || line.trim() === ''
IsBlank(line) == line.text \in {"empty", "spaces"}

\* JSON.parse(line) throws SyntaxError on anything that is not JSON text,
\* the empty string and white space included.
ParseThrows(line) == line.text # "json"
JsonParse(line) == line.v

Ids == {Undefined, Null, Num(1)}
Methods == {Undefined, Str("initialize"), Str("getTime"), Str("shutdown"), Str("frobnicate")}
ParamsOf(m) ==
    IF m = Str("initialize")
    THEN {Undefined, Null, EmptyObj, Obj([protocolVersion |-> Str("1.0")])}
    ELSE {Undefined}

\* { "id": id, "method": method, "params": params }, absent members left out.
Request(id, method, params) ==
    LET all == [id |-> id, method |-> method, params |-> params]
        present == {k \in DOMAIN all : all[k] # Undefined}
    IN  Obj([k \in present |-> all[k]])

Requests ==
    UNION {{Request(im[1], im[2], q) : q \in ParamsOf(im[2])} : im \in Ids \X Methods}

\* What a client may send as one line.
Lines ==
    {EmptyLine, SpaceLine, GarbageLine}
        \cup {JsonLine(v) : v \in Requests \cup {Null, Num(5), Arr}}

\* ------------------------------------------------------------- error codes
PARSE_ERROR == -32700
INVALID_REQUEST == -32600
METHOD_NOT_FOUND == -32601

\* error.message of what JSON.parse and a property read of null throw
SyntaxErrorMessage == "Unexpected token in JSON"
TypeErrorMessage == "Cannot read properties of null"
NoError == ""

\* --------------------------------------------------------------- the clock
\* new Date(ms).toISOString(): "YYYY-MM-DDTHH:mm:ss.sssZ" names the second and
\* the millisecond within it.
toISOString(ms) == [t |-> "string", iso |-> [secs |-> ms \div 1000, millis |-> ms % 1000]]
\* Date.parse of such a string
DateParse(str) == str.iso.secs * 1000 + str.iso.millis
\* toLocaleString, toUTCString, toDateString, toTimeString print whole seconds.
toSecondsString(fmt, ms) == [t |-> "string", fmt |-> fmt, secs |-> ms \div 1000]

\* The payload built from the second count `timestamp`, the Date `date` (its
\* milliseconds) and the value read for unix_ms.
TimePayload(timestamp, date, unixMs) ==
    Obj([unix_time |-> Num(timestamp),
         unix_ms |-> Num(unixMs),
         human_readable |-> toISOString(date),
         formatted |-> toSecondsString("locale", date),
         utc |-> toSecondsString("utc", date),
         date_only |-> toSecondsString("date", date),
         time_only |-> toSecondsString("time", date)])

ServerIdentity ==
    Obj([serverInfo |-> Obj([name |-> Str("IoEHubMcpTimeServer"), version |-> Str("1.0.0")]),
         capabilities |-> Obj([timeProvider |-> Bool(TRUE)])])

\* ------------------------------------------------------------------- state
VARIABLES
    server,     \* which program runs: "ioehub" or "mcp"
    p,          \* the process: its globals, timers and streams
    inp,        \* the lines delivered on stdin so far
    outSrc,     \* for each line of stdout, the index in inp of the line whose
                \* 'line' event wrote it (0: written outside a 'line' event)
    events,     \* environment events so far
    clock       \* the wall clock, in milliseconds, as last read by a request

vars == <<server, p, inp, outSrc, events, clock>>

\* console.error as it would be if it wrote to the stream console.log writes
\* to.
consoleErrorOnStdout(s, message) == [s EXCEPT !.stdout = Append(@, Str(message))]

\* console.error(message): one more copy of the message on stderr.
consoleError(s, message) == [s EXCEPT !.stderr = @ (+) SetToBag({message})]

\* process.stdout.write(JSON.stringify(response) + '\n') and
\* console.log(JSON.stringify(response)): one line on stdout.
stdoutWrite(s, response) == [s EXCEPT !.stdout = Append(@, Stringify(response))]

\* process.exit(code)
processExit(s, code) == [s EXCEPT !.exited = TRUE, !.exitCode = code]

\* throw: the rest of the handler is skipped up to the enclosing catch.
throw(s, message) == [s EXCEPT !.thrown = message]

\* ------------------------------------------------ ioehub-time.js: the process
\* The globals as declared, before startServer() runs.
InitIoehub ==
    [started |-> FALSE, exited |-> FALSE, exitCode |-> -1,
     stdout |-> <<>>, stderr |-> EmptyBag, thrown |-> NoError,
     stdinEnded |-> FALSE, rlClosed |-> FALSE, stdinResumes |-> 0,
     isRunning |-> TRUE, heartbeatInterval |-> 0, keepAliveTimeout |-> 0,
     stdinEndHandled |-> FALSE, exitHandlersRegistered |-> FALSE,
     timerSeq |-> 0,           \* timers created so far: a handle is the count
                               \* at its creation, 0 stands for null
     intervals |-> {},         \* armed intervals held in heartbeatInterval
     timeouts |-> {},          \* armed keep-alive timeouts
     aliveTimeouts |-> 0,      \* pending one-shots of handleInitialize
     initialTimeout |-> FALSE] \* the one-shot of the last lines is pending

\* log as it would be with console.log in place of console.error: the
\* message goes to stdout as well.
logToStdout(s, level, message) == stdoutWrite(consoleError(s, message), Str(message))

log(s, level, message) == consoleError(s, message)

sendJsonRpcResponse(s, id, result) ==
    LET response == Obj([jsonrpc |-> Str("2.0"), id |-> id, result |-> result])
    IN  stdoutWrite(log(s, "debug", "Sending response"), response)

\* sendRpcError as it would be if a null id were left out of the response.
sendRpcErrorOmitsNullId(s, id, code, message, data) ==
    LET error == Obj([code |-> Num(code), message |-> message])
        response == Obj([jsonrpc |-> Str("2.0"),
                         id |-> IF id = Null THEN Undefined ELSE id,
                         error |-> error])
    IN  stdoutWrite(consoleError(s, "Sending error"), response)

\* sendRpcError as it would be if it always wrote a data member, null when no
\* data was given.
sendRpcErrorNullData(s, id, code, message, data) ==
    LET error == [code |-> Num(code), message |-> message,
                  data |-> IF data = Undefined THEN Null ELSE data]
        response == Obj([jsonrpc |-> Str("2.0"), id |-> id, error |-> Obj(error)])
    IN  stdoutWrite(log(s, "debug", "Sending error"), response)

sendRpcError(s, id, code, message, data) ==
    LET error == IF data # Undefined
                 THEN [code |-> Num(code), message |-> message, data |-> data]
                 ELSE [code |-> Num(code), message |-> message]
        response == Obj([jsonrpc |-> Str("2.0"), id |-> id, error |-> Obj(error)])
    IN  stdoutWrite(log(s, "debug", "Sending error"), response)

\* resetKeepAliveTimeout as it would be without the clearTimeout of the
\* timeout it replaces.
resetKeepAliveTimeoutNoClear(s) ==
    [s EXCEPT !.timeouts = @ \cup {s.timerSeq + 1},
              !.keepAliveTimeout = s.timerSeq + 1,
              !.timerSeq = s.timerSeq + 1]

resetKeepAliveTimeout(s) ==
    LET cleared == IF s.keepAliveTimeout # 0
                   THEN s.timeouts \ {s.keepAliveTimeout}
                   ELSE s.timeouts
        handle == s.timerSeq + 1
    IN  [s EXCEPT !.timeouts = cleared \cup {handle},
                  !.keepAliveTimeout = handle,
                  !.timerSeq = handle]

startHeartbeat(s) ==
    LET cleared == IF s.heartbeatInterval # 0
                   THEN s.intervals \ {s.heartbeatInterval}
                   ELSE s.intervals
        handle == s.timerSeq + 1
    IN  [log(s, "info", "Starting server heartbeat")
            EXCEPT !.intervals = cleared \cup {handle},
                   !.heartbeatInterval = handle,
                   !.timerSeq = handle]

ensureProcessStaysAlive(s) == resetKeepAliveTimeout(startHeartbeat(s))

registerExitHandlers(s) ==
    IF s.exitHandlersRegistered
    THEN s
    ELSE [s EXCEPT !.exitHandlersRegistered = TRUE, !.stdinResumes = @ + 1]

\* handleStdinEnd as it would be without the test of stdinEndHandled.
handleStdinEndUnguarded(s) ==
    [log(s, "warn", "stdin ended, keeping process alive for MCP protocol")
        EXCEPT !.stdinEndHandled = TRUE, !.stdinResumes = @ + 1]

handleStdinEnd(s) ==
    IF s.stdinEndHandled
    THEN s
    ELSE [log(s, "warn", "stdin ended, keeping process alive for MCP protocol")
            EXCEPT !.stdinEndHandled = TRUE, !.stdinResumes = @ + 1]

handleInitialize(s, id, params) ==
    LET q == IF params = Undefined THEN EmptyObj ELSE params
    IN  IF ThrowsOnRead(q)
        THEN throw(s, TypeErrorMessage)
        ELSE [sendJsonRpcResponse(
                  log(log(s, "info", "Initializing with protocol"), "info", "Client info"),
                  id, ServerIdentity)
                EXCEPT !.aliveTimeouts = @ + 1]

\* handleGetTime as it would be if it cleared isRunning after answering.
handleGetTimeStops(s, id, now) ==
    [sendJsonRpcResponse(log(s, "debug", "Providing time"), id,
                         TimePayload(now \div 1000, now, now))
        EXCEPT !.isRunning = FALSE]

handleGetTime(s, id, now) ==
    LET timestamp == now \div 1000
        date == now
    IN  sendJsonRpcResponse(log(s, "debug", "Providing time"), id,
                            TimePayload(timestamp, date, now))

\* handleShutdown as it would be if it ended the process after answering,
\* as the handler of mcp-time-server.js does.
handleShutdownExits(s, id) ==
    processExit(
        stdoutWrite(consoleError(s, "Shutdown requested, but server will remain running"),
                    Obj([jsonrpc |-> Str("2.0"), id |-> id, result |-> Null])),
        0)

\* handleShutdown as it would be without the call of sendJsonRpcResponse.
handleShutdownSilent(s, id) ==
    consoleError(s, "Shutdown requested, but server will remain running")

\* handleShutdown as it would be with the result argument left out.
handleShutdownNoResult(s, id) ==
    stdoutWrite(consoleError(s, "Shutdown requested, but server will remain running"),
                Obj([jsonrpc |-> Str("2.0"), id |-> id, result |-> Undefined]))

handleShutdown(s, id) ==
    sendJsonRpcResponse(
        log(s, "info", "Shutdown requested, but server will remain running"), id, Null)

\* `Method '${method}' not found`
MethodNotFoundMessage(method) ==
    [t |-> "string", parts |-> <<"Method '">> \o method.parts \o <<"' not found">>]

handleRpcMessage(s, message, now) ==
    IF Falsy(message) \/ ~IsObjectType(message)
    THEN sendRpcError(s, Null, INVALID_REQUEST, Str("Invalid request"), Undefined)
    ELSE LET id == Get(message, "id")
             method == Get(message, "method")
             params == Get(message, "params")
         IN  IF Falsy(method)
             THEN sendRpcError(s, id, INVALID_REQUEST, Str("Method is required"), Undefined)
             ELSE CASE method = Str("initialize") -> handleInitialize(s, id, params)
                    [] method = Str("getTime") -> handleGetTime(s, id, now)
                    [] method = Str("shutdown") -> handleShutdown(s, id)
                    [] OTHER ->
                         sendRpcError(log(s, "warn", "Unsupported method"), id,
                                      METHOD_NOT_FOUND, MethodNotFoundMessage(method),
                                      Undefined)

\* rl.on('line', ...) of setupStdinHandling
onLine(s, line, now) ==
    IF IsBlank(line)
    THEN s
    ELSE LET tried ==
                 IF ParseThrows(line)
                 THEN throw(s, SyntaxErrorMessage)
                 ELSE handleRpcMessage(
                          resetKeepAliveTimeout(log(s, "debug", "Received")),
                          JsonParse(line), now)
         IN  IF tried.thrown # NoError
             THEN sendRpcError(
                      log([tried EXCEPT !.thrown = NoError], "error", "Failed to parse message"),
                      Null, PARSE_ERROR, Str("Parse error"), Str(tried.thrown))
             ELSE tried

\* rl.on('close', ...) of setupStdinHandling
onClose(s) ==
    handleStdinEnd(log(s, "warn", "readline interface closed, but keeping server alive"))

\* process.on('SIGINT', ...) and process.on('SIGTERM', ...) of registerExitHandlers
onSignal(s, sig) ==
    log(s, "info", IF sig = "SIGINT"
                   THEN "Received SIGINT - ignoring and keeping server alive"
                   ELSE "Received SIGTERM - ignoring and keeping server alive")

\* startServer() and the statements after it at the end of the file.
startServer(s) ==
    LET banner == log(s, "info", "IoEHub MCP Time Server starting...")
        alive == ensureProcessStaysAlive(registerExitHandlers(banner))
        ready == log(alive, "info", "IoEHub MCP Time Server ready for MCP communication")
    IN  [ready EXCEPT !.started = TRUE, !.initialTimeout = TRUE]

\* --------------------------------------------- mcp-time-server.js: the process
\* The globals as declared, before the top-level statements run.
InitMcp ==
    [started |-> FALSE, exited |-> FALSE, exitCode |-> -1,
     stdout |-> <<>>, stderr |-> EmptyBag, thrown |-> NoError,
     stdinEnded |-> FALSE, rlClosed |-> FALSE, stdinResumes |-> 0,
     keepAliveInterval |-> 0,  \* 0 stands for undefined and null
     timerSeq |-> 0,
     intervals |-> {},         \* armed intervals held in keepAliveInterval
     exitTimers |-> 0]         \* pending setTimeout(process.exit, 100)

sendJsonRpcResponseMcp(s, id, result) ==
    stdoutWrite(s, Obj([jsonrpc |-> Str("2.0"), id |-> id, result |-> result]))

\* sendJsonRpcError as it would be if reporting an error ended the process.
sendJsonRpcErrorMcpExits(s, id, code, message, data) ==
    processExit(
        stdoutWrite(s, Obj([jsonrpc |-> Str("2.0"), id |-> id,
                            error |-> Obj([code |-> Num(code), message |-> message])])),
        1)

sendJsonRpcErrorMcp(s, id, code, message, data) ==
    LET error == Obj([code |-> Num(code), message |-> message, data |-> data])
    IN  stdoutWrite(s, Obj([jsonrpc |-> Str("2.0"), id |-> id, error |-> error]))

startKeepAlive(s) ==
    IF s.keepAliveInterval = 0
    THEN LET handle == s.timerSeq + 1
         IN  [consoleError(s, "[info] Starting keep-alive mechanisms")
                EXCEPT !.intervals = @ \cup {handle},
                       !.keepAliveInterval = handle,
                       !.timerSeq = handle]
    ELSE s

stopKeepAlive(s) ==
    IF s.keepAliveInterval # 0
    THEN [consoleError(s, "[info] Stopping keep-alive mechanisms")
            EXCEPT !.intervals = @ \ {s.keepAliveInterval},
                   !.keepAliveInterval = 0]
    ELSE s

handleInitializeMcp(s, message) ==
    LET id == Get(message, "id")
        params == Get(message, "params")
    IN  IF ThrowsOnRead(params)
        THEN throw(s, TypeErrorMessage)
        ELSE sendJsonRpcResponseMcp(
                 startKeepAlive(consoleError(s, "[info] Initializing with protocol version")),
                 id, ServerIdentity)

\* handleGetTime of mcp-time-server.js as it would be if it required an
\* initialize before it.
handleGetTimeMcpNeedsInit(s, id, first, second) ==
    IF s.keepAliveInterval = 0
    THEN sendJsonRpcErrorMcp(s, id, INVALID_REQUEST, Str("Not initialized"), Undefined)
    ELSE sendJsonRpcResponseMcp(s, id, TimePayload(first \div 1000, (first \div 1000) * 1000, second))

\* Date.now() is read twice: `first` for the seconds, `second` for unix_ms.
handleGetTimeMcp(s, id, first, second) ==
    LET timestamp == first \div 1000
        date == timestamp * 1000
    IN  sendJsonRpcResponseMcp(s, id, TimePayload(timestamp, date, second))

\* handleShutdown of mcp-time-server.js as it would be without the timeout
\* that exits.
handleShutdownMcpStays(s, id) ==
    stopKeepAlive(
        stdoutWrite(consoleError(s, "[info] Shutting down..."),
                    Obj([jsonrpc |-> Str("2.0"), id |-> id, result |-> Null])))

handleShutdownMcp(s, id) ==
    LET answered == sendJsonRpcResponseMcp(consoleError(s, "[info] Shutting down..."), id, Null)
    IN  [stopKeepAlive(answered) EXCEPT !.exitTimers = @ + 1]

handleMessage(s, message, first, second) ==
    IF ThrowsOnRead(message)
    THEN throw(s, TypeErrorMessage)
    ELSE LET method == Get(message, "method")
             id == Get(message, "id")
         IN  CASE method = Str("initialize") -> handleInitializeMcp(s, message)
               [] method = Str("getTime") -> handleGetTimeMcp(s, id, first, second)
               [] method = Str("shutdown") -> handleShutdownMcp(s, id)
               [] OTHER ->
                    sendJsonRpcErrorMcp(consoleError(s, "[warn] Method not supported"), id,
                                        METHOD_NOT_FOUND, Str("Method not found"), Undefined)

\* rl.on('line', ...)
onLineMcp(s, line, first, second) ==
    LET tried ==
            IF ParseThrows(line)
            THEN throw(s, SyntaxErrorMessage)
            ELSE handleMessage(consoleError(s, "[debug] Received message"),
                               JsonParse(line), first, second)
    IN  IF tried.thrown # NoError
        THEN sendJsonRpcErrorMcp(
                 consoleError([tried EXCEPT !.thrown = NoError], "[error] Failed to parse message"),
                 Null, PARSE_ERROR, Str("Parse error"), Undefined)
        ELSE tried

\* rl.on('close', ...)
onCloseMcp(s) ==
    LET logged == consoleError(s, "[info] Input stream closed, shutting down...")
    IN  processExit([logged EXCEPT !.intervals = @ \ {s.keepAliveInterval}], 0)

\* process.on('SIGINT', ...) and process.on('SIGTERM', ...)
onSignalMcp(s, sig) ==
    processExit(
        stopKeepAlive(consoleError(s, IF sig = "SIGINT"
                                      THEN "[info] Received SIGINT, shutting down..."
                                      ELSE "[info] Received SIGTERM, shutting down...")),
        0)

\* process.stdin.on('end', ...)
onStdinEndMcp(s) ==
    consoleError(s, "[warn] stdin ended, but keeping process alive for MCP protocol")

\* The top-level statements of the file, from the first log to the last.
startMcp(s) ==
    LET first == consoleError(s, "[info] Initializing IoEHub MCP Time Server...")
        last == consoleError(first, "[info] IoEHub MCP Time Server ready to accept connections")
    IN  [last EXCEPT !.started = TRUE, !.stdinResumes = @ + 1]

\* The line reaches handleGetTime, the only place where a request reads the
\* clock.
ReachesGetTime(line) ==
    /\ ~ParseThrows(line)
    /\ Get(JsonParse(line), "method") = Str("getTime")

\* ------------------------------------------------------------------ actions
Servers == {"ioehub", "mcp"}
Signals == {"SIGINT", "SIGTERM"}

Init ==
    /\ server \in Servers
    /\ p = IF server = "ioehub" THEN InitIoehub ELSE InitMcp
    /\ inp = <<>>
    /\ outSrc = <<>>
    /\ events = 0
    /\ clock = CHOOSE t \in Instants : \A u \in Instants : t <= u

Running == p.started /\ ~p.exited
Budget == events < MaxEvents
Listening == ~p.stdinEnded /\ ~p.rlClosed

\* The lines s2 has on stdout beyond those of p were written by `source`.
Written(s2, source) ==
    outSrc' = outSrc \o [i \in 1..(Len(s2.stdout) - Len(p.stdout)) |-> source]

\* A 'line' event ran to completion and left the process as s2.
Deliver(line, s2) ==
    /\ p' = s2
    /\ inp' = Append(inp, line)
    /\ Written(s2, Len(inp) + 1)
    /\ events' = events + 1
    /\ UNCHANGED server

\* Any other event or callback ran to completion and left the process as s2.
Handle(s2) ==
    /\ p' = s2
    /\ Written(s2, 0)
    /\ events' = events + 1
    /\ UNCHANGED <<server, inp, clock>>

StartIoehub ==
    /\ server = "ioehub" /\ ~p.started
    /\ p' = startServer(p)
    /\ Written(startServer(p), 0)
    /\ UNCHANGED <<server, inp, events, clock>>

LineIoehub ==
    /\ server = "ioehub" /\ Running /\ Budget /\ Listening
    /\ Len(inp) < MaxLines
    /\ \E line \in Lines, now \in Instants :
          /\ now >= clock
          /\ ReachesGetTime(line) \/ now = clock
          /\ Deliver(line, onLine(p, line, now))
          /\ clock' = now

SignalIoehub ==
    /\ server = "ioehub" /\ Running /\ Budget
    /\ \E sig \in Signals : Handle(onSignal(p, sig))

\* process.stdin emits 'end'
StdinEndIoehub ==
    /\ server = "ioehub" /\ Running /\ Budget /\ ~p.stdinEnded
    /\ Handle(handleStdinEnd([p EXCEPT !.stdinEnded = TRUE]))

\* rl emits 'close'
CloseIoehub ==
    /\ server = "ioehub" /\ Running /\ Budget /\ ~p.rlClosed
    /\ Handle(onClose([p EXCEPT !.rlClosed = TRUE]))

\* the interval of startHeartbeat, every 10 s
HeartbeatIoehub ==
    /\ server = "ioehub" /\ Running /\ Budget
    /\ p.intervals # {}
    /\ Handle(log(p, "debug", "IoEHub MCP Time Server is still running"))

\* the timeout of resetKeepAliveTimeout expires, after 1 h
KeepAliveTimeoutIoehub ==
    /\ server = "ioehub" /\ Running /\ Budget
    /\ \E h \in p.timeouts :
          Handle(resetKeepAliveTimeout(
                     log([p EXCEPT !.timeouts = @ \ {h}], "debug", "Keep-alive timeout renewed")))

\* the first interval of ensureProcessStaysAlive, every 5 s: it reads isRunning
\* and does nothing
KeepBusyIoehub ==
    /\ server = "ioehub" /\ Running
    /\ p.isRunning \in BOOLEAN
    /\ UNCHANGED vars

\* the second interval of ensureProcessStaysAlive, every 30 s
KeepAliveCheckIoehub ==
    /\ server = "ioehub" /\ Running /\ Budget
    /\ Handle(log(p, "debug", "Keep-alive check running"))

\* the interval at the end of the file, every 20 s
ProcessKeepAliveIoehub ==
    /\ server = "ioehub" /\ Running /\ Budget
    /\ Handle(log(p, "debug", "Process keep-alive timer"))

\* the timeout at the end of the file, after 1 s
InitialTimeoutIoehub ==
    /\ server = "ioehub" /\ Running /\ Budget
    /\ p.initialTimeout
    /\ Handle(log([p EXCEPT !.initialTimeout = FALSE], "debug", "Initial timeout completed"))

\* the timeout of handleInitialize, after 1 s
AliveTimeoutIoehub ==
    /\ server = "ioehub" /\ Running /\ Budget
    /\ p.aliveTimeouts > 0
    /\ Handle(log([p EXCEPT !.aliveTimeouts = @ - 1], "info",
                  "Server remains alive after initialization"))

StartMcp ==
    /\ server = "mcp" /\ ~p.started
    /\ p' = startMcp(p)
    /\ Written(startMcp(p), 0)
    /\ UNCHANGED <<server, inp, events, clock>>

LineMcp ==
    /\ server = "mcp" /\ Running /\ Budget /\ Listening
    /\ Len(inp) < MaxLines
    /\ \E line \in Lines, first \in Instants, second \in Instants :
          /\ clock <= first /\ first <= second
          /\ ReachesGetTime(line) \/ second = clock
          /\ Deliver(line, onLineMcp(p, line, first, second))
          /\ clock' = second

SignalMcp ==
    /\ server = "mcp" /\ Running /\ Budget
    /\ \E sig \in Signals : Handle(onSignalMcp(p, sig))

StdinEndMcp ==
    /\ server = "mcp" /\ Running /\ Budget /\ ~p.stdinEnded
    /\ Handle(onStdinEndMcp([p EXCEPT !.stdinEnded = TRUE]))

CloseMcp ==
    /\ server = "mcp" /\ Running /\ Budget /\ ~p.rlClosed
    /\ Handle(onCloseMcp([p EXCEPT !.rlClosed = TRUE]))

\* the interval of startKeepAlive, every 60 s
KeepAliveMcp ==
    /\ server = "mcp" /\ Running /\ Budget
    /\ p.intervals # {}
    /\ Handle(consoleError(p, "[debug] MCP time server is still running..."))

\* the timeout of handleShutdown, after 100 ms
ExitTimerMcp ==
    /\ server = "mcp" /\ Running
    /\ p.exitTimers > 0
    /\ p' = processExit([p EXCEPT !.exitTimers = @ - 1], 0)
    /\ UNCHANGED <<server, inp, outSrc, events, clock>>

Next ==
    \/ StartIoehub \/ LineIoehub \/ SignalIoehub \/ StdinEndIoehub \/ CloseIoehub
    \/ HeartbeatIoehub \/ KeepAliveTimeoutIoehub \/ KeepBusyIoehub
    \/ KeepAliveCheckIoehub \/ ProcessKeepAliveIoehub
    \/ InitialTimeoutIoehub \/ AliveTimeoutIoehub
    \/ StartMcp \/ LineMcp \/ SignalMcp \/ StdinEndMcp \/ CloseMcp
    \/ KeepAliveMcp \/ ExitTimerMcp

Spec == Init /\ [][Next]_vars

\* What the timers of a running process do happens: a pending timeout fires
\* and the top-level statements of the file run.
FairSpec ==
    /\ Spec
    /\ WF_vars(StartIoehub) /\ WF_vars(StartMcp)
    /\ WF_vars(ExitTimerMcp)

\* ------------------------------------------------------- reading a history
\* The lines of stdout written by the 'line' event of input line i.
ResponsesTo(i) == {j \in DOMAIN outSrc : outSrc[j] = i}

\* The indices of the non-blank input lines, in arrival order.
NonBlankLines ==
    SelectSeq([i \in 1..Len(inp) |-> i], LAMBDA i : ~IsBlank(inp[i]))

HasMember(v, name) == v.t = "object" /\ name \in DOMAIN v.f

\* An error envelope with this code.
IsError(envelope, code) ==
    /\ HasMember(envelope, "error")
    /\ Get(Get(envelope, "error"), "code") = Num(code)

\* The envelope's id answers a request whose id was rid: the same value; a
\* request without id, or with id null, is answered without id or with null.
AnswersId(envelope, rid) ==
    IF rid \in {Undefined, Null}
    THEN Get(envelope, "id") \in {Undefined, Null}
    ELSE Get(envelope, "id") = rid

\* The line is the text of a JSON object.
IsObjectLine(line) == line.text = "json" /\ line.v.t = "object"
MethodOf(line) == Get(line.v, "method")
IdOf(line) == Get(line.v, "id")

\* stdout and its record of sources go together.
HistoryOK ==
    /\ Len(outSrc) = Len(p.stdout)
    /\ \A j \in DOMAIN outSrc : outSrc[j] \in 0..Len(inp)

\* ------------------------------------------------------------------ claims

\* C1: every non-blank input line, whatever its content, is answered by
\* exactly one line on stdout (in ioehub-time.js, which the claim is about,
\* and in mcp-time-server.js as well).
C1_OneResponsePerLine ==
    \A i \in DOMAIN inp :
        ~IsBlank(inp[i]) => Cardinality(ResponsesTo(i)) = 1

\* C1 witness: ioehub-time.js has answered a request whose handler threw and
\* a line of malformed text, once each.
C1_Witness ==
    /\ server = "ioehub"
    /\ C1_OneResponsePerLine
    /\ Len(inp) = 2
    /\ inp[1] = JsonLine(Request(Num(1), Str("initialize"), Null))
    /\ inp[2] = GarbageLine
    /\ Len(p.stdout) = 2

\* C2: a response to a line that parsed carries the id of that request; a
\* parseable request with id k that ends in an error is answered with id k.
C2_ResponseCarriesRequestId ==
    \A j \in DOMAIN p.stdout :
        (outSrc[j] # 0 /\ ~ParseThrows(inp[outSrc[j]])) =>
            AnswersId(p.stdout[j], Get(JsonParse(inp[outSrc[j]]), "id"))

\* C3: in ioehub-time.js the i-th line of stdout answers the i-th non-blank
\* input line, it is there before the next line is handled, and no timer
\* writes a line of stdout.
C3_ResponsesInArrivalOrder ==
    server = "ioehub" => outSrc = NonBlankLines

\* C3 witness: two requests with different ids answered in order, in a run
\* in which the heartbeat has fired.
C3_Witness ==
    /\ server = "ioehub"
    /\ Len(inp) = 2 /\ ~IsBlank(inp[1]) /\ ~IsBlank(inp[2])
    /\ BagIn("IoEHub MCP Time Server is still running", p.stderr)
    /\ outSrc = <<1, 2>>
    /\ Get(p.stdout[1], "id") # Get(p.stdout[2], "id")

\* C4: a line that is not JSON text is answered with error -32700 and id
\* null: whatever is written for such a line is that answer, and a non-blank
\* one is answered.
C4_ParseErrorForInvalidText ==
    \A i \in DOMAIN inp :
        ParseThrows(inp[i]) =>
            /\ ~IsBlank(inp[i]) => ResponsesTo(i) # {}
            /\ \A j \in ResponsesTo(i) :
                  /\ IsError(p.stdout[j], PARSE_ERROR)
                  /\ HasMember(p.stdout[j], "id")
                  /\ Get(p.stdout[j], "id") = Null

\* C4 witness: malformed text has been answered.
C4_Witness ==
    /\ \E i \in DOMAIN inp : inp[i] = GarbageLine /\ ResponsesTo(i) # {}
    /\ C4_ParseErrorForInvalidText

\* C5: a request without method is answered with error -32600 and an id
\* member: the request's id if it had one, null otherwise.
C5_MissingMethodIsInvalidRequest ==
    \A i \in DOMAIN inp :
        (IsObjectLine(inp[i]) /\ ~HasMember(inp[i].v, "method")) =>
            \A j \in ResponsesTo(i) :
                /\ IsError(p.stdout[j], INVALID_REQUEST)
                /\ HasMember(p.stdout[j], "id")
                /\ Get(p.stdout[j], "id") =
                       (IF HasMember(inp[i].v, "id") THEN IdOf(inp[i]) ELSE Null)

\* C6: a request for a method other than initialize, getTime and shutdown is
\* answered with error -32601, the request's id and a message that names the
\* method.
C6_UnknownMethodNamed ==
    \A i \in DOMAIN inp :
        (IsObjectLine(inp[i]) /\ MethodOf(inp[i]) = Str("frobnicate")) =>
            \A j \in ResponsesTo(i) :
                /\ IsError(p.stdout[j], METHOD_NOT_FOUND)
                /\ AnswersId(p.stdout[j], IdOf(inp[i]))
                /\ LET message == Get(Get(p.stdout[j], "error"), "message")
                   IN  \E k \in DOMAIN message.parts : message.parts[k] = "frobnicate"

\* C7: every line of stdout has exactly one of the members result and error.
C7_ResultXorError ==
    \A j \in DOMAIN p.stdout :
        HasMember(p.stdout[j], "result") # HasMember(p.stdout[j], "error")

\* C7 witness: a shutdown has been answered with result null, and an error
\* has been written.
C7_Witness ==
    /\ \E j \in DOMAIN p.stdout :
          HasMember(p.stdout[j], "result") /\ Get(p.stdout[j], "result") = Null
    /\ \E j \in DOMAIN p.stdout : HasMember(p.stdout[j], "error")
    /\ C7_ResultXorError

\* C8: the end of stdin and the closing of the readline interface, at any
\* point of a run, leave the process running.
C8_StdinClosureKeepsRunning ==
    [][(p'.stdinEnded # p.stdinEnded \/ p'.rlClosed # p.rlClosed) => ~p'.exited]_vars

\* C9: SIGINT and SIGTERM are logged and change nothing else: the process
\* keeps running with its state as it was.
C9_SignalsIgnored ==
    [][(SignalIoehub \/ SignalMcp) =>
          /\ ~p'.exited
          /\ p'.stderr # p.stderr
          /\ p' = [p EXCEPT !.stderr = p'.stderr]]_vars

\* A shutdown request has been delivered.
ShutdownRequested ==
    \E i \in DOMAIN inp : IsObjectLine(inp[i]) /\ MethodOf(inp[i]) = Str("shutdown")

\* Every shutdown request delivered has its answer on stdout: one line, with
\* result null and the id of the request.
ShutdownAnswered ==
    \A i \in DOMAIN inp :
        (IsObjectLine(inp[i]) /\ MethodOf(inp[i]) = Str("shutdown")) =>
            /\ Cardinality(ResponsesTo(i)) = 1
            /\ \A j \in ResponsesTo(i) :
                  /\ HasMember(p.stdout[j], "result")
                  /\ Get(p.stdout[j], "result") = Null
                  /\ AnswersId(p.stdout[j], IdOf(inp[i]))

\* C10 as stated: a shutdown request is answered with result null and the
\* request's id, and the process then terminates with exit code 0.
C10_ShutdownTerminates ==
    /\ []ShutdownAnswered
    /\ ShutdownRequested ~> (p.exited /\ p.exitCode = 0)

\* C10 amended: both servers answer a shutdown request with result null and
\* the request's id, and mcp-time-server.js then terminates with exit code 0,
\* the answer being on stdout when it does.
C10_ShutdownTerminatesMcp ==
    /\ []ShutdownAnswered
    /\ (server = "mcp" /\ ShutdownRequested) ~> (p.exited /\ p.exitCode = 0)

\* C10 witness: mcp-time-server.js has exited through the timeout of
\* handleShutdown, with the answer on stdout.
C10_Witness ==
    /\ server = "mcp"
    /\ p.exited /\ p.exitCode = 0
    /\ ~p.rlClosed
    /\ ~BagIn("[info] Received SIGINT, shutting down...", p.stderr)
    /\ ~BagIn("[info] Received SIGTERM, shutting down...", p.stderr)
    /\ ShutdownRequested /\ ShutdownAnswered

\* ------------------------------------------------- answers and histories
\* The lines of stdout that a 'line' event for `line` adds when the process
\* is in state s and the clock reads `first`, then `second`.
RespondTo(s, line, first, second) ==
    LET s2 == IF server = "ioehub"
              THEN onLine(s, line, first)
              ELSE onLineMcp(s, line, first, second)
    IN  SubSeq(s2.stdout, Len(s.stdout) + 1, Len(s2.stdout))

\* Two readings of the clock by one request.
Readings == {r \in Instants \X Instants : r[1] <= r[2]}

\* The process right after its start, before any event.
Fresh == IF server = "ioehub" THEN startServer(InitIoehub) ELSE startMcp(InitMcp)

\* The lines of stdout written for input line i, in order.
AnswerTo(i) ==
    LET at == SelectSeq([j \in 1..Len(outSrc) |-> j], LAMBDA j : outSrc[j] = i)
    IN  [k \in 1..Len(at) |-> p.stdout[at[k]]]

\* The readings that matter to a line: only getTime reads the clock, so for
\* any other line one pair stands for all.
ReadingsFor(line) ==
    IF ReachesGetTime(line)
    THEN Readings
    ELSE {r \in Readings : \A q \in Instants : r[1] <= q /\ r[2] <= q}

\* Input line i was answered as a process that has seen nothing else answers
\* it, for some readings of the clock.
AnsweredAsFresh(i) ==
    \E r \in ReadingsFor(inp[i]) : AnswerTo(i) = RespondTo(Fresh, inp[i], r[1], r[2])

IsShutdownLine(line) == IsObjectLine(line) /\ MethodOf(line) = Str("shutdown")

\* C11: in ioehub-time.js a shutdown request is answered with result null and
\* the process stays: it has not exited after any number of them, and every
\* request after a shutdown is answered as it is by a process just started.
C11_ShutdownKeepsRunning ==
    server = "ioehub" =>
        /\ ~p.exited
        /\ ShutdownAnswered
        /\ \A i \in DOMAIN inp : \A k \in DOMAIN inp :
              (IsShutdownLine(inp[i]) /\ k > i) => AnsweredAsFresh(k)

\* C11 witness: ioehub-time.js has answered a shutdown and then a getTime
\* with a time payload.
C11_Witness ==
    /\ server = "ioehub"
    /\ Len(inp) = 2 /\ Len(p.stdout) = 2
    /\ IsShutdownLine(inp[1])
    /\ Get(p.stdout[1], "result") = Null /\ HasMember(p.stdout[1], "result")
    /\ IsObjectLine(inp[2]) /\ MethodOf(inp[2]) = Str("getTime")
    /\ HasMember(Get(p.stdout[2], "result"), "unix_ms")
    /\ ~p.exited

\* This step is a 'line' event whose answer is an error.
ErrorStep ==
    /\ Len(inp') = Len(inp) + 1
    /\ Len(p'.stdout) > Len(p.stdout)
    /\ HasMember(p'.stdout[Len(p'.stdout)], "error")

\* Input line i was answered with an error.
EndedInError(i) == \E j \in ResponsesTo(i) : HasMember(p.stdout[j], "error")

\* C12: a request that ends in an error leaves the process running and
\* reading, and every request after it is answered as if the failing request
\* had never been sent: as a process that has seen nothing else answers it.
C12_ErrorsAreIsolated ==
    /\ [](\A i \in DOMAIN inp : \A k \in DOMAIN inp :
              (EndedInError(i) /\ k > i) => AnsweredAsFresh(k))
    /\ [][ErrorStep => (~p'.exited /\ ~p'.stdinEnded /\ ~p'.rlClosed)]_vars

\* C12 witness: after a request whose handler threw, a getTime got its time
\* payload.
C12_Witness ==
    /\ Len(inp) = 2 /\ Len(p.stdout) = 2
    /\ inp[1] = JsonLine(Request(Num(1), Str("initialize"), Null))
    /\ HasMember(p.stdout[1], "error")
    /\ IsObjectLine(inp[2]) /\ MethodOf(inp[2]) = Str("getTime")
    /\ HasMember(Get(p.stdout[2], "result"), "unix_ms")
    /\ ~p.exited

\* The time payloads written so far: the results that have a unix_ms member.
TimeResults ==
    {Get(p.stdout[j], "result") : j \in
        {k \in DOMAIN p.stdout : HasMember(Get(p.stdout[k], "result"), "unix_ms")}}

\* C13: in every getTime result, with the clock free to advance between two
\* reads of it, unix_ms divided by 1000 and floored equals unix_time.
C13_UnixMsMatchesUnixTime ==
    \A r \in TimeResults : Get(r, "unix_ms").n \div 1000 = Get(r, "unix_time").n

\* C14: in every getTime result, the instant human_readable denotes is
\* unix_ms: the text keeps the milliseconds.
C14_HumanReadableIsUnixMs ==
    \A r \in TimeResults : DateParse(Get(r, "human_readable")) = Get(r, "unix_ms").n

IsInitializeLine(line) == IsObjectLine(line) /\ MethodOf(line) = Str("initialize")

\* C15: every initialize request, whatever its params and however often it is
\* sent, is answered with the request's id and the constant server identity.
C15_InitializeAlwaysAnswered ==
    \A i \in DOMAIN inp :
        IsInitializeLine(inp[i]) =>
            /\ ResponsesTo(i) # {}
            /\ \A j \in ResponsesTo(i) :
                  /\ AnswersId(p.stdout[j], IdOf(inp[i]))
                  /\ Get(p.stdout[j], "result") = ServerIdentity

\* A JSON-RPC response envelope: an object with jsonrpc "2.0", possibly an
\* id, and either a result or an error, and no other member.
IsEnvelope(v) ==
    /\ v.t = "object"
    /\ DOMAIN v.f \subseteq {"jsonrpc", "id", "result", "error"}
    /\ Get(v, "jsonrpc") = Str("2.0")
    /\ HasMember(v, "result") # HasMember(v, "error")

\* C16: stdout carries only protocol frames: every line of it is a response
\* envelope written in answer to an input line; startup, heartbeat,
\* keep-alive, signal and error logs never add a line to it.
C16_StdoutCarriesOnlyFrames ==
    \A j \in DOMAIN p.stdout : IsEnvelope(p.stdout[j]) /\ outSrc[j] # 0

\* C16 witness: ioehub-time.js has logged its startup, a heartbeat and an
\* ignored signal on stderr, and stdout holds exactly the answer to the one
\* request received.
C16_Witness ==
    /\ server = "ioehub"
    /\ BagIn("Starting server heartbeat", p.stderr)
    /\ BagIn("IoEHub MCP Time Server is still running", p.stderr)
    /\ BagIn("Received SIGTERM - ignoring and keeping server alive", p.stderr)
    /\ Len(inp) = 1 /\ Len(p.stdout) = 1
    /\ IsEnvelope(p.stdout[1]) /\ outSrc = <<1>>

\* C17: an empty or whitespace-only line is a no-op: nothing is written to
\* stdout for it and the state of the process is as before.
C17_BlankLineIsNoOp ==
    [][(Len(inp') = Len(inp) + 1 /\ IsBlank(inp'[Len(inp')])) =>
          (p'.stdout = p.stdout /\ [p' EXCEPT !.stderr = p.stderr] = p)]_vars

\* C18: error -32700 is written only for lines that fail to parse: no line
\* that is JSON text is answered with it.
C18_ParseErrorOnlyForInvalidText ==
    \A j \in DOMAIN p.stdout :
        IsError(p.stdout[j], PARSE_ERROR) =>
            (outSrc[j] # 0 /\ ParseThrows(inp[outSrc[j]]))

\* C19: each call is independent of the calls before it: whatever came
\* before, a line is answered as a process that has received nothing answers
\* it at the same readings of the clock; getTime needs no initialize.
C19_CallsAreIndependent ==
    [][Len(inp') = Len(inp) + 1 =>
          \E r \in {q \in Readings : clock <= q[1] /\ q[2] = clock'} :
              SubSeq(p'.stdout, Len(p.stdout) + 1, Len(p'.stdout))
                  = RespondTo(Fresh, inp'[Len(inp')], r[1], r[2])]_vars

\* C19 witness: the same getTime request was sent twice at one clock
\* reading, with no initialize before either, and got the same time payload
\* both times.
C19_Witness ==
    /\ Len(inp) = 2 /\ inp[1] = JsonLine(Request(Num(1), Str("getTime"), Undefined))
    /\ inp[2] = inp[1]
    /\ Len(p.stdout) = 2 /\ p.stdout[2] = p.stdout[1]
    /\ HasMember(Get(p.stdout[1], "result"), "unix_ms")
    /\ AnsweredAsFresh(1) /\ AnsweredAsFresh(2)

\* C20: in mcp-time-server.js, which honours shutdown, the answer to a
\* shutdown request is the last line of stdout: a line that arrives after it,
\* the 100 ms before the exit included, is not answered.
C20_ShutdownResponseIsLast ==
    server = "mcp" =>
        \A i \in DOMAIN inp : \A k \in DOMAIN inp :
            (IsShutdownLine(inp[i]) /\ k > i) => ResponsesTo(k) = {}

\* isRunning, stdinEndHandled and exitHandlersRegistered of ioehub-time.js.
LifecycleFlags(s) == <<s.isRunning, s.stdinEndHandled, s.exitHandlersRegistered>>

\* C21: in ioehub-time.js the handling of a request line, whatever the line
\* and whether it ends in a result or an error, leaves isRunning,
\* stdinEndHandled and exitHandlersRegistered as they were; only the start-up
\* and the handling of the end of stdin change them.
C21_RequestsKeepLifecycleFlags ==
    [][server = "ioehub" =>
          /\ Len(inp') = Len(inp) + 1 => LifecycleFlags(p') = LifecycleFlags(p)
          /\ LifecycleFlags(p') # LifecycleFlags(p) =>
                (~p.started \/ p'.stdinEnded # p.stdinEnded \/ p'.rlClosed # p.rlClosed)]_vars

\* C21 witness: ioehub-time.js has answered a getTime and an errored request
\* and its flags are those the start-up left.
C21_Witness ==
    /\ server = "ioehub" /\ Len(inp) = 2 /\ Len(p.stdout) = 2
    /\ ReachesGetTime(inp[1]) /\ HasMember(Get(p.stdout[1], "result"), "unix_ms")
    /\ HasMember(p.stdout[2], "error")
    /\ LifecycleFlags(p) = <<TRUE, FALSE, TRUE>>

\* The error objects written so far.
ErrorObjects ==
    {Get(p.stdout[j], "error") : j \in {k \in DOMAIN p.stdout : HasMember(p.stdout[k], "error")}}

\* C22: an error object has a data member only when data was given to the
\* function that wrote it (the text of the exception, in the parse-error
\* answer of ioehub-time.js); -32600 and -32601 answers have exactly code and
\* message; data is never written as null.
C22_ErrorDataOnlyWhenSupplied ==
    \A e \in ErrorObjects :
        /\ e.t = "object"
        /\ {"code", "message"} \subseteq DOMAIN e.f
        /\ DOMAIN e.f \subseteq {"code", "message", "data"}
        /\ HasMember(e, "data") =>
              /\ Get(e, "data") \in {Str(SyntaxErrorMessage), Str(TypeErrorMessage)}
              /\ server = "ioehub" /\ Get(e, "code") = Num(PARSE_ERROR)
        /\ Get(e, "code") \in {Num(INVALID_REQUEST), Num(METHOD_NOT_FOUND)} =>
              DOMAIN e.f = {"code", "message"}

\* C22 witness: ioehub-time.js has written a method-not-found error with
\* code and message only, and a parse error that carries data.
C22_Witness ==
    /\ server = "ioehub" /\ Len(p.stdout) = 2
    /\ IsError(p.stdout[1], METHOD_NOT_FOUND)
    /\ DOMAIN Get(p.stdout[1], "error").f = {"code", "message"}
    /\ IsError(p.stdout[2], PARSE_ERROR)
    /\ HasMember(Get(p.stdout[2], "error"), "data")

\* How often the body of handleStdinEnd has run: once per copy of its log
\* message.
StdinEndBodyRuns ==
    CopiesIn("stdin ended, keeping process alive for MCP protocol", p.stderr)

\* C23: in ioehub-time.js, whatever stdin 'end' and readline 'close' events
\* occur and in whatever order, the body of handleStdinEnd (its log and its
\* process.stdin.resume()) runs at most once, and stdinEndHandled, once
\* true, stays true.
C23_StdinEndHandledOnce ==
    /\ [](server = "ioehub" =>
             /\ StdinEndBodyRuns <= 1
             /\ StdinEndBodyRuns = (IF p.stdinEndHandled THEN 1 ELSE 0)
             /\ p.stdinResumes =
                   (IF p.started THEN 1 ELSE 0) + StdinEndBodyRuns)
    /\ [][(server = "ioehub" /\ p.stdinEndHandled) => p'.stdinEndHandled]_vars

\* C23 witness: stdin has ended and the readline interface has closed, so
\* handleStdinEnd was called twice, and its body ran once.
C23_Witness ==
    /\ server = "ioehub" /\ p.stdinEnded /\ p.rlClosed
    /\ BagIn("readline interface closed, but keeping server alive", p.stderr)
    /\ p.stdinEndHandled /\ StdinEndBodyRuns = 1 /\ p.stdinResumes = 2

\* C24: in ioehub-time.js, once the start-up is over, exactly one keep-alive
\* timeout is pending, the one keepAliveTimeout holds; each line that parses
\* and each expiry of the timeout replaces it by a new one, so none
\* accumulates and the keep-alive is never unarmed.
C24_OneKeepAliveTimeoutPending ==
    /\ [](server = "ioehub" /\ p.started =>
             (Cardinality(p.timeouts) = 1 /\ p.timeouts = {p.keepAliveTimeout}))
    /\ [][(server = "ioehub" /\ p.started) =>
             /\ (Len(inp') = Len(inp) + 1 /\ ~IsBlank(inp'[Len(inp')])
                    /\ ~ParseThrows(inp'[Len(inp')]))
                   => p'.keepAliveTimeout \notin {0, p.keepAliveTimeout}
             /\ CopiesIn("Keep-alive timeout renewed", p'.stderr)
                      > CopiesIn("Keep-alive timeout renewed", p.stderr)
                   => p'.keepAliveTimeout \notin {0, p.keepAliveTimeout}]_vars

\* C24 witness: the timeout armed by the start-up was replaced when a
\* message was parsed, the replacement expired and was renewed, and one
\* timeout is pending.
C24_Witness ==
    /\ server = "ioehub" /\ p.started
    /\ Len(inp) = 1 /\ ~ParseThrows(inp[1])
    /\ BagIn("Keep-alive timeout renewed", p.stderr)
    /\ p.keepAliveTimeout > 2
    /\ p.timeouts = {p.keepAliveTimeout}

====
